---- MODULE Spec2Model ----
(***************************************************************************)
(* Model of app.py, the Streamlit budget tracker.  Streamlit runs the      *)
(* whole script once per user interaction: every run registers the user    *)
(* name (lines 30-42), loads the user's CSV file (lines 44-53) and then    *)
(* handles the widget that triggered the run.                              *)
(*                                                                         *)
(* Text is a sequence of one-character strings.  A stored amount is a      *)
(* number of hundredths.  A date is the day of January 2024.               *)
(***************************************************************************)
EXTENDS Integers, Sequences, FiniteSets, TLC

VARIABLES users_file, files, username, df, pc, pending, last, acked, report

vars == <<users_file, files, username, df, pc, pending, last, acked, report>>

(* ------------------------------ bounds --------------------------------- *)

\* most rows a table may hold before the model stops adding
MaxRows == 2
\* most lines of users.txt before the model stops rendering
MaxLog == 4
\* most successful adds per session in the two-session specification
MaxAdds == 2

Sessions == {1, 2}

\* the form submissions the model draws from: type, category as typed,
\* amount in hundredths (number_input has min_value = 0.0) and day of
\* January 2024
Submissions ==
    { [t_type |-> "Income",  category |-> <<" ", "a", "B", " ">>, amount |-> 150, date |-> 2],
      [t_type |-> "Expense", category |-> <<"b">>,                amount |-> 150, date |-> 1],
      [t_type |-> "Expense", category |-> <<"b">>,                amount |-> 275, date |-> 2],
      [t_type |-> "Expense", category |-> <<"a", "b">>,           amount |-> 150, date |-> 1],
      [t_type |-> "Expense", category |-> <<" ">>,                amount |-> 150, date |-> 2],
      [t_type |-> "Expense", category |-> <<>>,                   amount |-> 150, date |-> 1],
      [t_type |-> "Income",  category |-> <<"b">>,                amount |-> 0,   date |-> 1],
      [t_type |-> "Income",  category |-> <<>>,                   amount |-> 0,   date |-> 2] }
\* the submissions of the two-session specification
RaceSubmissions ==
    { [t_type |-> "Income",  category |-> <<"a">>, amount |-> 150, date |-> 1],
      [t_type |-> "Expense", category |-> <<"b">>, amount |-> 275, date |-> 2],
      [t_type |-> "Expense", category |-> <<"b">>, amount |-> 0,   date |-> 2] }
\* names typed into the sidebar in the single-session specification
SessionUsernames == { <<"a">>, <<"A", " ", "b">> }
\* names typed into the sidebar in the registration specification
LoginUsernames == { <<"a">>, <<"a", " ">>, <<" ", "a">>, <<"B">>, <<"b">> }
\* names typed into the sidebar in the two-session specification
RaceUsernames == { <<"a">>, <<"A">>, <<"b">> }

(* ------------------------------ text ----------------------------------- *)

IsSpace(c) == c = " "

IsUpper(c) == c \in {"A", "B"}

IsLower(c) == c \in {"a", "b"}

IsCased(c) == IsUpper(c) \/ IsLower(c)

Lower(c) == IF c = "A" THEN "a" ELSE IF c = "B" THEN "b" ELSE c

Upper(c) == IF c = "a" THEN "A" ELSE IF c = "b" THEN "B" ELSE c

\* str.lower()
StrLower(s) == [i \in 1..Len(s) |-> Lower(s[i])]

\* str.replace(' ', '_')
ReplaceSpace(s) == [i \in 1..Len(s) |-> IF s[i] = " " THEN "_" ELSE s[i]]

RECURSIVE LStrip(_)
LStrip(s) == IF s # <<>> /\ IsSpace(Head(s)) THEN LStrip(Tail(s)) ELSE s

RECURSIVE RStrip(_)
RStrip(s) ==
    IF s # <<>> /\ IsSpace(s[Len(s)]) THEN RStrip(SubSeq(s, 1, Len(s) - 1)) ELSE s

\* str.strip()
Strip(s) == RStrip(LStrip(s))

\* str.title(): a cased character is upper-cased when it follows an uncased
\* one (or starts the text) and lower-cased otherwise
Title(s) ==
    [i \in 1..Len(s) |->
        IF IsCased(s[i])
        THEN IF i = 1 \/ ~IsCased(s[i - 1]) THEN Upper(s[i]) ELSE Lower(s[i])
        ELSE s[i]]

Normalize(category) == Title(Strip(category))

\* f"{username.lower().replace(' ', '_')}_transactions.csv"
Filename(u) == ReplaceSpace(StrLower(u)) \o <<"_", "t", "x">>

(* ------------------------------ tables --------------------------------- *)

\* pandas' missing value: what read_csv makes of an empty field
NaN == <<"NaN">>

Income == "Income"

Expense == "Expense"

Types == {Income, Expense}

\* pd.DataFrame(columns=["Date", "Type", "Category", "Amount"])
EmptyTable == <<>>

Header == <<"Date", "Type", "Category", "Amount">>

\* an absent file
NoFile == <<>>

\* str(date) / Timestamp written by to_csv: year, month, day
IsoDate(d) == <<2024, 1, d>>

\* pd.to_datetime of the stored text
ToDatetime(iso) == iso[3]

\* a float written by to_csv: whole part and hundredths
AmountText(a) == <<a \div 100, a % 100>>

ParseAmount(txt) == txt[1] * 100 + txt[2]

CsvRow(r) ==
    << IsoDate(r.Date), r.Type,
       IF r.Category = NaN THEN <<>> ELSE r.Category,
       AmountText(r.Amount) >>

\* DataFrame.to_csv(filename, index=False): the header and one line per row
to_csv(table) == <<Header>> \o [i \in 1..Len(table) |-> CsvRow(table[i])]

ParseRow(line) ==
    [ Date     |-> ToDatetime(line[1]),
      Type     |-> line[2],
      Category |-> IF line[3] = <<>> THEN NaN ELSE line[3],
      Amount   |-> ParseAmount(line[4]) ]

\* pd.read_csv(filename), then df["Date"] = pd.to_datetime(df["Date"])
read_csv(lines) == [i \in 1..(Len(lines) - 1) |-> ParseRow(lines[i + 1])]

\* lines 44-53
LoadUserData(fs, u) ==
    IF fs[Filename(u)] = NoFile THEN EmptyTable ELSE read_csv(fs[Filename(u)])

\* lines 33-42: the lines of users.txt after registering u
RegisterUser(uf, u) ==
    LET users == {Strip(uf.lines[i]) : i \in 1..Len(uf.lines)}
    IN  [ exists |-> TRUE,
          lines  |-> IF u \notin users THEN Append(uf.lines, u) ELSE uf.lines ]

\* line 65 with "or" in place of "and"
ValidAddEither(category, amount) == category # <<>> \/ amount > 0

\* line 65
ValidAdd(category, amount) == category # <<>> /\ amount > 0

\* lines 66-71
new_data(t_type, category, amount, date_input) ==
    [ Date     |-> ToDatetime(IsoDate(date_input)),
      Type     |-> t_type,
      Category |-> Normalize(category),
      Amount   |-> amount ]

\* line 72 with the operands of concat exchanged
ConcatFront(table, row) == <<row>> \o table

\* line 72 with the new frame assigned in place of the concatenation
ConcatOnlyNew(table, row) == <<row>>

\* line 72: pd.concat([df, pd.DataFrame([new_data])], ignore_index=True)
Concat(table, row) == Append(table, row)

\* line 92 dropping by position from the end in place of the selected index
DropLast(table, i) == SubSeq(table, 1, Len(table) - 1)

\* line 92: df.drop(index=edited_index).reset_index(drop=True); the model's
\* index i is the code's index i - 1
DropRow(table, i) ==
    [j \in 1..(Len(table) - 1) |-> IF j < i THEN table[j] ELSE table[j + 1]]

\* lines 104-107
SaveChanges(table, i, new_type, new_category, new_amount, new_date) ==
    [table EXCEPT ![i] =
        [ Date     |-> ToDatetime(IsoDate(new_date)),
          Type     |-> new_type,
          Category |-> Normalize(new_category),
          Amount   |-> new_amount ]]

(* ------------------------------ views ---------------------------------- *)

RECURSIVE Insert(_, _)
Insert(sorted, r) ==
    IF sorted = <<>> THEN <<r>>
    ELSE IF r.Date < Head(sorted).Date THEN <<r>> \o sorted
    ELSE <<Head(sorted)>> \o Insert(Tail(sorted), r)

RECURSIVE SortValues(_)
\* line 115: df.sort_values("Date"), a new frame; df itself keeps its order
SortValues(table) ==
    IF table = <<>> THEN <<>>
    ELSE Insert(SortValues(SubSeq(table, 1, Len(table) - 1)), table[Len(table)])

RECURSIVE SumOf(_, _, _)
\* the sum of Amount over the rows of the given type (and category, unless
\* cat is the text "*")
SumOf(table, type, cat) ==
    IF table = <<>> THEN 0
    ELSE (IF Head(table).Type = type /\ (cat = <<"*">> \/ Head(table).Category = cat)
          THEN Head(table).Amount ELSE 0)
         + SumOf(Tail(table), type, cat)

\* line 117
income(table) == SumOf(table, Income, <<"*">>)

\* line 118
expenses(table) == SumOf(table, Expense, <<"*">>)

\* line 119
balance(table) == income(table) - expenses(table)

\* line 128: groupby("Category") leaves out the rows whose key is missing
pie_keys(table) ==
    {table[i].Category : i \in {j \in 1..Len(table) : table[j].Type = Expense}}
        \ {NaN}

pie_data(table) == [c \in pie_keys(table) |-> SumOf(table, Expense, c)]

\* lines 165-170 iterating over the frame sorted as the history view is
ReportRowsSorted(dataframe) ==
    [i \in 1..Len(dataframe) |->
        << IsoDate(SortValues(dataframe)[i].Date), SortValues(dataframe)[i].Type,
           IF SortValues(dataframe)[i].Category = NaN THEN <<"n", "a", "n">>
           ELSE SortValues(dataframe)[i].Category,
           AmountText(SortValues(dataframe)[i].Amount) >>]

\* lines 165-170: one grid line per row of the frame handed in, in its order
ReportRows(dataframe) ==
    [i \in 1..Len(dataframe) |->
        << IsoDate(dataframe[i].Date), dataframe[i].Type,
           IF dataframe[i].Category = NaN THEN <<"n", "a", "n">>
           ELSE dataframe[i].Category,
           AmountText(dataframe[i].Amount) >>]

\* lines 145-174
generate_pdf(u, dataframe, total_income, total_expenses, balance_amt) ==
    [ exists   |-> TRUE,
      title    |-> Title(u),
      income   |-> AmountText(total_income),
      expenses |-> AmountText(total_expenses),
      balance  |-> balance_amt,
      rows     |-> ReportRows(dataframe) ]

\* whether a frame holds a cell that pdf.cell cannot take as text
HasMissing(table) == \E i \in 1..Len(table) : table[i].Category = NaN

(* ------------------------------ state ---------------------------------- *)

AllUsernames == SessionUsernames \cup LoginUsernames \cup RaceUsernames

Filenames == {Filename(u) : u \in AllUsernames}

NoUsersFile == [exists |-> FALSE, lines |-> <<>>]

\* no report written by the latest run
NoReport ==
    [ exists |-> FALSE, title |-> <<>>, income |-> <<0, 0>>,
      expenses |-> <<0, 0>>, balance |-> 0, rows |-> <<>> ]

\* the record of the latest script run: the widget that triggered it, the
\* values submitted, the table loaded at its start (pre), the user's file at
\* its start (preFile), the table its handler left in memory (mutated) and
\* the message it showed
NoRun ==
    [ op |-> "none", t_type |-> Income, category |-> <<>>, amount |-> 0,
      date |-> 1, index |-> 0, pre |-> <<>>, preFile |-> <<>>,
      mutated |-> <<>>, notice |-> "none" ]

NoInput == [t_type |-> Income, category |-> <<>>, amount |-> 0, date |-> 1]

\* one session, logged in as u, after its first render
LoggedIn(u) ==
    /\ users_file = RegisterUser(NoUsersFile, u)
    /\ files = [f \in Filenames |-> NoFile]
    /\ username = [s \in Sessions |-> IF s = 1 THEN u ELSE <<>>]
    /\ df = [s \in Sessions |-> EmptyTable]
    /\ pc = [s \in Sessions |-> "idle"]
    /\ pending = [s \in Sessions |-> NoInput]
    /\ last = NoRun
    /\ acked = [s \in Sessions |-> <<>>]
    /\ report = NoReport

Init == \E u \in SessionUsernames : LoggedIn(u)

(* --------------- one session: a whole script run per action ------------ *)

\* a run that no handler takes part in (lines 22-53, then the views)
Render ==
    LET u == username[1]
        df0 == LoadUserData(files, u)
    IN  /\ users_file' = RegisterUser(users_file, u)
        /\ df' = [df EXCEPT ![1] = df0]
        /\ last' = [NoRun EXCEPT !.op = "render", !.pre = df0,
                                  !.preFile = files[Filename(u)], !.mutated = df0]
        /\ report' = NoReport
        /\ UNCHANGED <<files, username, pc, pending, acked>>

\* lines 56-77: the form is submitted; a valid submission saves and reruns
Add(sub) ==
    LET t_type == sub.t_type
        category == sub.category
        amount == sub.amount
        date_input == sub.date
        u == username[1]
        fn == Filename(u)
        df0 == LoadUserData(files, u)
        mutated == Concat(df0, new_data(t_type, category, amount, date_input))
        saved == [files EXCEPT ![fn] = to_csv(mutated)]
        run == [NoRun EXCEPT !.op = "add", !.t_type = t_type,
                             !.category = category, !.amount = amount,
                             !.date = date_input, !.pre = df0,
                             !.preFile = files[fn]]
    IN  /\ Len(df0) < MaxRows
        /\ users_file' = RegisterUser(users_file, u)
        /\ IF ValidAdd(category, amount)
           THEN /\ files' = saved
                /\ df' = [df EXCEPT ![1] = LoadUserData(saved, u)]
                /\ last' = [run EXCEPT !.mutated = mutated, !.notice = "success"]
           ELSE /\ files' = files
                /\ df' = [df EXCEPT ![1] = df0]
                /\ last' = [run EXCEPT !.mutated = df0, !.notice = "warning"]
        /\ report' = NoReport
        /\ UNCHANGED <<username, pc, pending, acked>>

\* lines 91-95
Delete(edited_index) ==
    LET u == username[1]
        fn == Filename(u)
        df0 == LoadUserData(files, u)
        mutated == DropRow(df0, edited_index)
        saved == [files EXCEPT ![fn] = to_csv(mutated)]
    IN  /\ edited_index \in 1..Len(df0)
        /\ users_file' = RegisterUser(users_file, u)
        /\ files' = saved
        /\ df' = [df EXCEPT ![1] = LoadUserData(saved, u)]
        /\ last' = [NoRun EXCEPT !.op = "delete", !.index = edited_index,
                                  !.pre = df0, !.preFile = files[fn],
                                  !.mutated = mutated, !.notice = "success"]
        /\ report' = NoReport
        /\ UNCHANGED <<username, pc, pending, acked>>

\* lines 98-110
Edit(edited_index, sub) ==
    LET new_type == sub.t_type
        new_category == sub.category
        new_amount == sub.amount
        new_date == sub.date
        u == username[1]
        fn == Filename(u)
        df0 == LoadUserData(files, u)
        mutated == SaveChanges(df0, edited_index, new_type, new_category,
                               new_amount, new_date)
        saved == [files EXCEPT ![fn] = to_csv(mutated)]
    IN  /\ edited_index \in 1..Len(df0)
        /\ users_file' = RegisterUser(users_file, u)
        /\ files' = saved
        /\ df' = [df EXCEPT ![1] = LoadUserData(saved, u)]
        /\ last' = [NoRun EXCEPT !.op = "edit", !.index = edited_index,
                                  !.t_type = new_type, !.category = new_category,
                                  !.amount = new_amount, !.date = new_date,
                                  !.pre = df0, !.preFile = files[fn],
                                  !.mutated = mutated, !.notice = "success"]
        /\ report' = NoReport
        /\ UNCHANGED <<username, pc, pending, acked>>

\* lines 176-181: the report of the loaded frame.  With a missing category in
\* the frame pdf.cell is handed a float: depending on the fpdf build it
\* prints it or raises, and a run that raises writes no report.
GenerateReport ==
    LET u == username[1]
        df0 == LoadUserData(files, u)
        run == [NoRun EXCEPT !.op = "report", !.pre = df0,
                             !.preFile = files[Filename(u)], !.mutated = df0]
    IN  /\ df0 # EmptyTable
        /\ users_file' = RegisterUser(users_file, u)
        /\ df' = [df EXCEPT ![1] = df0]
        /\ \/ /\ report' = generate_pdf(u, df0, income(df0), expenses(df0),
                                        balance(df0))
              /\ last' = [run EXCEPT !.notice = "success"]
           \/ /\ HasMissing(df0)
              /\ report' = NoReport
              /\ last' = [run EXCEPT !.notice = "error"]
        /\ UNCHANGED <<files, username, pc, pending, acked>>

Next ==
    \/ Render
    \/ \E sub \in Submissions : Add(sub)
    \/ \E i \in 1..MaxRows : Delete(i)
    \/ \E i \in 1..MaxRows, sub \in Submissions : Edit(i, sub)
    \/ GenerateReport

Spec == Init /\ [][Next]_vars

(* --------------- registration: names typed into the sidebar ------------ *)

\* no session has typed a name and users.txt does not exist yet
InitUsers ==
    /\ users_file = NoUsersFile
    /\ files = [f \in Filenames |-> NoFile]
    /\ username = [s \in Sessions |-> <<>>]
    /\ df = [s \in Sessions |-> EmptyTable]
    /\ pc = [s \in Sessions |-> "idle"]
    /\ pending = [s \in Sessions |-> NoInput]
    /\ last = NoRun
    /\ acked = [s \in Sessions |-> <<>>]
    /\ report = NoReport

\* lines 24-53: session s types the name u and the script runs
EnterName(s, u) ==
    /\ Len(users_file.lines) < MaxLog
    /\ username' = [username EXCEPT ![s] = u]
    /\ users_file' = RegisterUser(users_file, u)
    /\ df' = [df EXCEPT ![s] = LoadUserData(files, u)]
    /\ UNCHANGED <<files, pc, pending, last, acked, report>>

\* lines 24-28: session s clears the name; the script stops before line 30
ClearName(s) ==
    /\ username[s] # <<>>
    /\ username' = [username EXCEPT ![s] = <<>>]
    /\ UNCHANGED <<users_file, files, df, pc, pending, last, acked, report>>

\* lines 24-53: the script runs again with the name session s typed before
Refresh(s) ==
    /\ username[s] # <<>>
    /\ Len(users_file.lines) < MaxLog
    /\ users_file' = RegisterUser(users_file, username[s])
    /\ df' = [df EXCEPT ![s] = LoadUserData(files, username[s])]
    /\ UNCHANGED <<files, username, pc, pending, last, acked, report>>

NextUsers ==
    \/ \E s \in Sessions, u \in LoginUsernames : EnterName(s, u)
    \/ \E s \in Sessions : ClearName(s)
    \/ \E s \in Sessions : Refresh(s)

SpecUsers == InitUsers /\ [][NextUsers]_vars

(* --------------- two sessions: script runs interleave at file I/O ------ *)

\* both sessions have typed a name and rendered once; no transactions yet
InitRace ==
    \E u1 \in RaceUsernames, u2 \in RaceUsernames :
        /\ users_file = RegisterUser(RegisterUser(NoUsersFile, u1), u2)
        /\ files = [f \in Filenames |-> NoFile]
        /\ username = [s \in Sessions |-> IF s = 1 THEN u1 ELSE u2]
        /\ df = [s \in Sessions |-> EmptyTable]
        /\ pc = [s \in Sessions |-> "idle"]
        /\ pending = [s \in Sessions |-> NoInput]
        /\ last = NoRun
        /\ acked = [s \in Sessions |-> <<>>]
        /\ report = NoReport

\* lines 30-53 of the run a form submission starts: register, load the file
BeginAdd(s, sub) ==
    /\ pc[s] = "idle"
    /\ Len(acked[s]) < MaxAdds
    /\ users_file' = RegisterUser(users_file, username[s])
    /\ df' = [df EXCEPT ![s] = LoadUserData(files, username[s])]
    /\ pending' = [pending EXCEPT ![s] = sub]
    /\ pc' = [pc EXCEPT ![s] = "form"]
    /\ UNCHANGED <<files, username, last, acked, report>>

\* lines 64-77 of that run: append to the frame loaded and overwrite the
\* file, or warn.  last records the latest save and the session that made it.
HandleAdd(s) ==
    LET sub == pending[s]
        row == new_data(sub.t_type, sub.category, sub.amount, sub.date)
        mutated == Concat(df[s], row)
    IN  /\ pc[s] = "form"
        /\ IF ValidAdd(sub.category, sub.amount)
           THEN /\ df' = [df EXCEPT ![s] = mutated]
                /\ files' = [files EXCEPT ![Filename(username[s])] = to_csv(mutated)]
                /\ acked' = [acked EXCEPT ![s] = Append(acked[s], row)]
                /\ last' = [NoRun EXCEPT !.op = "add", !.index = s,
                                          !.pre = df[s], !.mutated = mutated,
                                          !.notice = "success"]
                /\ pc' = [pc EXCEPT ![s] = "rerun"]
           ELSE /\ pc' = [pc EXCEPT ![s] = "idle"]
                /\ UNCHANGED <<df, files, acked, last>>
        /\ pending' = [pending EXCEPT ![s] = NoInput]
        /\ UNCHANGED <<users_file, username, report>>

\* line 75: st.rerun() starts the script again; lines 30-53 of that run
RerunAfterAdd(s) ==
    /\ pc[s] = "rerun"
    /\ users_file' = RegisterUser(users_file, username[s])
    /\ df' = [df EXCEPT ![s] = LoadUserData(files, username[s])]
    /\ pc' = [pc EXCEPT ![s] = "idle"]
    /\ UNCHANGED <<files, username, pending, last, acked, report>>

NextRace ==
    \/ \E s \in Sessions, sub \in RaceSubmissions : BeginAdd(s, sub)
    \/ \E s \in Sessions : HandleAdd(s)
    \/ \E s \in Sessions : RerunAfterAdd(s)

SpecRace == InitRace /\ [][NextRace]_vars

(* ------------------------------ claims --------------------------------- *)

\* the file of the session's user
UserFile == files[Filename(username[1])]

\* Python's category.strip().title() on the categories the submissions use
TrimmedTitleCased(category) ==
    CASE category = <<" ", "a", "B", " ">> -> <<"A", "b">>
      [] category = <<"a", "b">>           -> <<"A", "b">>
      [] category = <<"b">>                -> <<"B">>
      [] category = <<"a">>                -> <<"A">>
      [] category = <<" ">>                -> <<>>
      [] category = <<>>                   -> <<>>

\* C1: an add with amount > 0 and a non-empty category leaves a table one row
\* longer, whose first n rows are the old rows in their order and whose last
\* row holds the submitted date, type and amount and the category trimmed and
\* title-cased.
C1_AddAppends ==
    (last.op = "add" /\ last.amount > 0 /\ last.category # <<>>) =>
        LET n == Len(last.pre)
        IN  /\ Len(last.mutated) = n + 1
            /\ \A i \in 1..n : last.mutated[i] = last.pre[i]
            /\ last.mutated[n + 1] =
                   [ Date     |-> last.date,
                     Type     |-> last.t_type,
                     Category |-> TrimmedTitleCased(last.category),
                     Amount   |-> last.amount ]
            /\ Len(UserFile) = n + 2

C1_Witness ==
    /\ last.op = "add"
    /\ last.amount > 0
    /\ last.category = <<" ", "a", "B", " ">>
    /\ Len(last.pre) = 1
    /\ last.pre[1].Category = <<"B">>

\* C2: an add with amount <= 0 or an empty category changes neither the table
\* nor the user's file, and shows the warning.
C2_InvalidAddNoOp ==
    (last.op = "add" /\ (last.amount <= 0 \/ last.category = <<>>)) =>
        /\ last.mutated = last.pre
        /\ df[1] = last.pre
        /\ UserFile = last.preFile
        /\ last.notice = "warning"

C2_Witness ==
    /\ last.op = "add"
    /\ last.category = <<>>
    /\ last.amount > 0
    /\ Len(last.pre) = 1
    /\ last.notice = "warning"

\* C3: an edit with an empty category or amount <= 0 changes nothing; a valid
\* edit replaces row i by the normalized submission and nothing else.
C3_EditValidates ==
    last.op = "edit" =>
        IF last.amount <= 0 \/ last.category = <<>>
        THEN /\ last.mutated = last.pre
             /\ df[1] = last.pre
             /\ UserFile = last.preFile
        ELSE /\ Len(last.mutated) = Len(last.pre)
             /\ \A j \in 1..Len(last.pre) :
                   j # last.index => last.mutated[j] = last.pre[j]
             /\ last.mutated[last.index] =
                   [ Date     |-> last.date,
                     Type     |-> last.t_type,
                     Category |-> TrimmedTitleCased(last.category),
                     Amount   |-> last.amount ]

\* C4: every record of the table and of the file has amount > 0, a non-empty
\* category and a type that is Income or Expense.
C4_StoredRecordsValid ==
    /\ \A i \in 1..Len(df[1]) :
          /\ df[1][i].Amount > 0
          /\ df[1][i].Category \notin {<<>>, NaN}
          /\ df[1][i].Type \in Types
    /\ \A i \in 2..Len(UserFile) :
          /\ ParseAmount(UserFile[i][4]) > 0
          /\ UserFile[i][3] # <<>>
          /\ UserFile[i][2] \in Types

C6_LoadEqualsMutated ==
    (last.op \in {"add", "edit", "delete"} /\ last.notice = "success") =>
        /\ UserFile # NoFile
        /\ df[1] = last.mutated

\* C8 as stated: the report lists the rows in date-ascending order, as the
\* history view does.
C8_ReportDateAscending ==
    report.exists => report.rows = ReportRows(SortValues(df[1]))

\* C8 amended: the report lists one row per transaction in the order the
\* table stores them (insertion order), not in the order of the history view.
C8_ReportInTableOrder ==
    report.exists =>
        /\ Len(report.rows) = Len(df[1])
        /\ \A i \in 1..Len(df[1]) :
              /\ report.rows[i][1] = <<2024, 1, df[1][i].Date>>
              /\ report.rows[i][2] = df[1][i].Type
              /\ df[1][i].Category # NaN => report.rows[i][3] = df[1][i].Category
              /\ report.rows[i][4] = <<df[1][i].Amount \div 100, df[1][i].Amount % 100>>

C8_Witness ==
    /\ report.exists
    /\ Len(df[1]) = 2
    /\ df[1][1].Date > df[1][2].Date

RECURSIVE SumValues(_, _)
SumValues(f, keys) ==
    IF keys = {} THEN 0
    ELSE LET k == CHOOSE x \in keys : TRUE
         IN  f[k] + SumValues(f, keys \ {k})

\* C9: the breakdown's keys are the categories of the Expense rows, each
\* value is the sum of that category's Expense amounts, the values add up to
\* the total expense, and balance = income - expense.
C9_Breakdown ==
    LET t == df[1]
        cats == {t[i].Category : i \in {j \in 1..Len(t) : t[j].Type = Expense}}
    IN  /\ DOMAIN pie_data(t) = cats
        /\ \A c \in DOMAIN pie_data(t) : pie_data(t)[c] = SumOf(t, Expense, c)
        /\ SumValues(pie_data(t), DOMAIN pie_data(t)) = expenses(t)
        /\ balance(t) = income(t) - expenses(t)

\* C7: each username appears in the username log at most once.
C7_RegisteredOnce ==
    \A i, j \in 1..Len(users_file.lines) :
        i # j => users_file.lines[i] # users_file.lines[j]

\* the file of session s, read back
Persisted(s) == LoadUserData(files, username[s])

\* C10: the user's file always holds exactly the table of the session that
\* saved last, and while the two sessions' names map to different files each
\* file holds every add its session was told succeeded, in order.
C10_LastWriteWins ==
    /\ last.op = "add" => Persisted(last.index) = last.mutated
    /\ \A s \in Sessions, t \in Sessions :
          Filename(username[s]) # Filename(username[t]) => Persisted(s) = acked[s]

\* both sessions loaded the same table, both adds were reported successful,
\* and the file holds only the add of the session that saved last
C10_LostUpdate ==
    /\ username[1] = username[2]
    /\ pc = [s \in Sessions |-> "idle"]
    /\ Len(acked[1]) = 1
    /\ Len(acked[2]) = 1
    /\ last.index = 2
    /\ last.pre = EmptyTable
    /\ acked[1] # acked[2]
    /\ Persisted(1) = acked[2]

====
